---- MODULE Spec2Model ----
(***************************************************************************)
(* rs-tiler (src/src/main.rs): counting tilings of a board level by level  *)
(* (count_tilings), sampling one tiling depth first (get_single_tiling),   *)
(* and building the deduplicated board graph (compute_boardgraph).         *)
(*                                                                         *)
(* One behaviour constructs a Tiler (Init) and then calls the three public *)
(* entry points in turn on that same Tiler, followed by the graph counter  *)
(* of the specification run on the graph that was built.                   *)
(*                                                                         *)
(* A RectangularBoard is a width x height grid of marked/unmarked cells;   *)
(* within a run the size is fixed, so a board value is its set of marked   *)
(* cells.  A Tile is a sequence of directions (a path of cells), a         *)
(* TilePosition the sequence of cells the path covers.  An Option is a     *)
(* sequence of length 0 (None) or 1 (Some).                                *)
(***************************************************************************)
EXTENDS Integers, Sequences, FiniteSets

VARIABLES
    width, height,      \* tiler.board.width / height
    board,              \* tiler.board: the marked cells of the initial board
    tiles,              \* tiler.tiles.tiles: Vec<Tile>
    pc,                 \* position of the control in the entry point being run
    \* ---- count_tilings
    ctStack,            \* stack: HashSet<RectangularBoard>
    ctCounter,          \* counter: HashMap<RectangularBoard, u64>
    ctPending,          \* boards of the frontier whose closure has not run yet
    ctHandles,          \* handles: results of the closures that have run
    ctCompleted,        \* completed_board: Option<RectangularBoard>
    ctPrev,             \* history: the frontier and counter the last map ran on
    ctOutcome,          \* "running" | "returned" | "panicked"
    ctResult,           \* the u64 returned
    \* ---- get_single_tiling
    gsStack,            \* stack: Vec<Vec<RectangularBoard>>
    gsCompleted,        \* completed_tilings: Vec<Vec<RectangularBoard>>
    gsTvec,             \* tvec: the path popped last
    gsFitting,          \* the fitting_tiles the for loop has not visited yet
    gsResult,           \* the Option<Vec<RectangularBoard>> returned
    \* ---- compute_boardgraph
    gbStack,            \* stack: HashSet<RectangularBoard>
    gbPending,          \* boards of the frontier whose closure has not run yet
    gbHandles,          \* handles: results of the closures that have run
    gbToHash,           \* entries of the current to_hash not merged yet
    completed_boards,   \* completed_boards: HashSet<RectangularBoard>
    board_graph,        \* board_graph: BoardGraph
    board_graph_hashmap,\* board_graph_hashmap: HashMap<RectangularBoard, usize>
    hashm,              \* hashm: HashMap<RectangularBoard, Vec<RectangularBoard>>
    gbOutcome,          \* "running" | "returned" | "panicked"
    \* ---- graph counter
    gcResult            \* the count computed from board_graph

gsVars == <<gsStack, gsCompleted, gsTvec, gsFitting, gsResult>>
gbVars == <<gbStack, gbPending, gbHandles, gbToHash, completed_boards,
            board_graph, board_graph_hashmap, hashm, gbOutcome>>
ctVars == <<ctStack, ctCounter, ctPending, ctHandles, ctCompleted, ctPrev,
            ctOutcome, ctResult>>
inVars == <<width, height, board, tiles>>
vars == <<inVars, pc, ctVars, gsVars, gbVars, gcResult>>
notCt == <<inVars, gsVars, gbVars, gcResult>>
notGs == <<inVars, ctVars, gbVars, gcResult>>
notGb == <<inVars, ctVars, gsVars, gcResult>>

----------------------------------------------------------------------------
(* Bounds of the model and the inputs drawn from them.                     *)

MaxCells == 6

\* The number of complete paths after which get_single_tiling stops looking
\* (1000 in the source, scaled down so that small boards reach it).
CompletedCap == 3

\* The boards of the termination check have at most this many cells.
LiveCells == 3

\* width and height of the boards with at most n cells
Shapes(n) ==
    {s \in (0..n) \X (0..n) :
        /\ s[1] * s[2] <= n
        /\ (s[1] = 0) <=> (s[2] = 0)}

CellsOf(w, h) == (0..(w - 1)) \X (0..(h - 1))

AllCells == CellsOf(width, height)

\* Tile collections the Tiler is constructed with.
TileCollections ==
    { <<>>,                                   \* no tile at all
      << <<>> >>,                             \* a single-cell tile
      << <<"R">>, <<"D">> >>,                 \* the domino, both rotations
      << <<"R">>, <<>> >>,                    \* tiles of 2 and of 1 cells
      << <<"R", "R">>, <<"R">> >>,            \* tiles of 3 and of 2 cells
      << <<"R">>, <<"L">> >>,                 \* the domino and its half turn
      << <<"R">>, <<"R">>, <<"D">> >>,        \* a tile listed twice
      << <<"R", "D">>, <<"D", "R">>,
         <<"D", "L">>, <<"L", "D">> >> }      \* rotations of the L tromino

None == <<>>
Some(x) == <<x>>

EmptyMap == [x \in {} |-> 0]

Range(s) == {s[i] : i \in DOMAIN s}

----------------------------------------------------------------------------
(* tilelib (extern crate, line 1): the board and tile interface used by    *)
(* main.rs, modelled from the specification's external interfaces.         *)

Delta(d) ==
    CASE d = "R" -> <<1, 0>>
      [] d = "L" -> <<-1, 0>>
      [] d = "D" -> <<0, 1>>
      [] d = "U" -> <<0, -1>>

RECURSIVE Offset(_, _)
\* Displacement of the i-th cell of the tile's path from its first cell.
Offset(tile, i) ==
    IF i = 0 THEN <<0, 0>>
    ELSE LET o == Offset(tile, i - 1)
             d == Delta(tile[i])
         IN <<o[1] + d[1], o[2] + d[2]>>

\* The cells tile covers when its cell number start_index lies on p.
TileCells(tile, p, start_index) ==
    LET s == Offset(tile, start_index)
    IN [j \in 1..(Len(tile) + 1) |->
            <<p[1] - s[1] + Offset(tile, j - 1)[1],
              p[2] - s[2] + Offset(tile, j - 1)[2]>>]

\* board.tile_fits_at_position(tile, p, start_index) -> Option<TilePosition>
tile_fits_at_position(b, tile, p, start_index) ==
    LET tp == TileCells(tile, p, start_index)
    IN IF \A j \in DOMAIN tp : tp[j] \in AllCells /\ tp[j] \notin b
       THEN Some(tp) ELSE None

\* board.mark_tile_at_position(tp)
mark_tile_at_position(b, tp) == b \cup Range(tp)

\* board.is_all_marked()
is_all_marked(b) == b = AllCells

ScanBefore(c, d) == c[2] < d[2] \/ (c[2] = d[2] /\ c[1] < d[1])

\* board.get_unmarked_position(tiles): the first unmarked cell in scan order
get_unmarked_position(b) ==
    IF b = AllCells THEN None
    ELSE Some(CHOOSE c \in AllCells \ b :
                 \A d \in AllCells \ b : d = c \/ ScanBefore(c, d))

----------------------------------------------------------------------------
(* The fitting-tiles loop shared by the three entry points.                *)

\* The (tile, start_index) pairs in the order the two nested loops visit them.
RECURSIVE LoopPairs(_, _)
LoopPairs(ts, i) ==
    IF i > Len(ts) THEN <<>>
    ELSE [k \in 1..(Len(ts[i]) + 1) |-> <<i, k - 1>>] \o LoopPairs(ts, i + 1)

RECURSIVE CollectFitting(_, _, _, _)
CollectFitting(b, p, pairs, acc) ==
    IF pairs = <<>> THEN acc
    ELSE LET t == Head(pairs)
             r == tile_fits_at_position(b, tiles[t[1]], p, t[2])
         IN IF r # None /\ r[1] \notin Range(acc)
            THEN CollectFitting(b, p, Tail(pairs), Append(acc, r[1]))
            ELSE CollectFitting(b, p, Tail(pairs), acc)

\* fitting_tiles for board b at position p
FittingTiles(b, p) == CollectFitting(b, p, LoopPairs(tiles, 1), <<>>)

----------------------------------------------------------------------------
(* count_tilings                                                           *)

MapAdd(m, k, v) ==
    [x \in DOMAIN m \cup {k} |->
        IF x = k THEN (IF k \in DOMAIN m THEN m[k] ELSE 0) + v ELSE m[x]]

RECURSIVE CtPlaceAll(_, _, _, _)
\* The loop over fitting_tiles in the closure of count_tilings: acc is
\* (next_boards, completed_boards, count_updates).
CtPlaceAll(b, fitting, current_count, acc) ==
    IF fitting = <<>> THEN acc
    ELSE LET marked_board == mark_tile_at_position(b, Head(fitting))
             upd == MapAdd(acc.count_updates, marked_board, current_count)
         IN CtPlaceAll(b, Tail(fitting), current_count,
                IF is_all_marked(marked_board)
                THEN [acc EXCEPT !.count_updates = upd,
                                 !.completed_boards = @ \cup {marked_board}]
                ELSE [acc EXCEPT !.count_updates = upd,
                                 !.next_boards = @ \cup {marked_board}])

CtEmptyHandle(b) ==
    [b |-> b, next_boards |-> {}, completed_boards |-> {},
     count_updates |-> EmptyMap]

\* Whether the closure run on b reads counter[&b] for a missing key.
CtClosurePanics(b, counter) ==
    LET p == get_unmarked_position(b)
    IN p # None /\ FittingTiles(b, p[1]) # <<>> /\ b \notin DOMAIN counter

\* The closure run on frontier board b with the shared counter.
CtClosure(b, counter) ==
    LET p == get_unmarked_position(b)
    IN IF p = None THEN CtEmptyHandle(b)
       ELSE CtPlaceAll(b, FittingTiles(b, p[1]),
                       IF b \in DOMAIN counter THEN counter[b] ELSE 0,
                       CtEmptyHandle(b))

RECURSIVE MergeCounts(_, _)
\* for (board, cnt) in count_updates { *entry(board).or_insert(0) += cnt }
MergeCounts(counter, count_updates) ==
    IF DOMAIN count_updates = {} THEN counter
    ELSE LET k == CHOOSE x \in DOMAIN count_updates : TRUE
         IN MergeCounts(MapAdd(counter, k, count_updates[k]),
                        [x \in DOMAIN count_updates \ {k} |-> count_updates[x]])

\* Faulty variant: completed_board is unwrapped without the test for None.
CtFinalUnwrap(completed_board, counter) ==
    IF completed_board # None /\ completed_board[1] \in DOMAIN counter
    THEN <<"returned", counter[completed_board[1]]>>
    ELSE <<"panicked", 0>>

\* The value count_tilings ends with: <<outcome, result>>.
CtFinal(completed_board, counter) ==
    IF completed_board # None
    THEN IF completed_board[1] \in DOMAIN counter
         THEN <<"returned", counter[completed_board[1]]>>
         ELSE <<"panicked", 0>>
    ELSE <<"returned", 0>>

\* let mut counter = ...; counter.insert(board, 1); stack.insert(board)
CT_Start ==
    /\ pc = "ct_start"
    /\ ctCounter' = MapAdd(EmptyMap, board, 1)
    /\ ctStack' = {board}
    /\ ctCompleted' = None
    /\ pc' = "ct_loop"
    /\ UNCHANGED <<notCt, ctPrev, ctPending, ctHandles, ctOutcome, ctResult>>

\* while !stack.is_empty() { stack.par_iter().map(...) : the fan-out
CT_Begin ==
    /\ pc = "ct_loop"
    /\ ctStack # {}
    /\ ctPending' = ctStack
    /\ ctHandles' = {}
    /\ pc' = "ct_map"
    /\ UNCHANGED <<notCt, ctPrev, ctStack, ctCounter, ctCompleted,
                   ctOutcome, ctResult>>

\* Faulty variant: the closure adds its count updates to the shared counter
\* while its siblings are still running.
CT_ExpandWriting ==
    /\ pc = "ct_map"
    /\ \E b \in ctPending :
        IF CtClosurePanics(b, ctCounter)
        THEN /\ ctOutcome' = "panicked"
             /\ pc' = "gs_start"
             /\ UNCHANGED <<ctPending, ctHandles, ctCounter>>
        ELSE /\ ctHandles' = ctHandles \cup {CtClosure(b, ctCounter)}
             /\ ctCounter' =
                    MergeCounts(ctCounter, CtClosure(b, ctCounter).count_updates)
             /\ ctPending' = ctPending \ {b}
             /\ UNCHANGED <<pc, ctOutcome>>
    /\ UNCHANGED <<notCt, ctPrev, ctStack, ctCompleted, ctResult>>

\* one closure of the parallel map runs
CT_Expand ==
    /\ pc = "ct_map"
    /\ \E b \in ctPending :
        IF CtClosurePanics(b, ctCounter)
        THEN /\ ctOutcome' = "panicked"
             /\ pc' = "gs_start"
             /\ UNCHANGED <<ctPending, ctHandles>>
        ELSE /\ ctHandles' = ctHandles \cup {CtClosure(b, ctCounter)}
             /\ ctPending' = ctPending \ {b}
             /\ UNCHANGED <<pc, ctOutcome>>
    /\ UNCHANGED <<notCt, ctPrev, ctStack, ctCounter, ctCompleted, ctResult>>

\* Faulty variant: the old frontier is kept, stack = HashSet::new() forgotten.
CtKeepStack(stack) == stack

\* stack = HashSet::new() after the map: what the old frontier leaves behind
CtFreshStack(stack) == {}

\* .collect(); stack = HashSet::new(); counter = ...HashMap::new()
CT_Collect ==
    /\ pc = "ct_map"
    /\ ctPending = {}
    /\ ctPrev' = [stack |-> ctStack, counter |-> ctCounter]
    /\ ctStack' = CtFreshStack(ctStack)
    /\ ctCounter' = EmptyMap
    /\ pc' = "ct_merge"
    /\ UNCHANGED <<notCt, ctPending, ctHandles, ctCompleted,
                   ctOutcome, ctResult>>

\* one iteration of: for (next_boards, completed_boards, count_updates) in handles
CT_Merge ==
    /\ pc = "ct_merge"
    /\ \E h \in ctHandles :
        /\ ctStack' = ctStack \cup h.next_boards
        /\ ctCounter' = MergeCounts(ctCounter, h.count_updates)
        /\ \/ /\ h.completed_boards = {}
              /\ ctCompleted' = ctCompleted
           \/ \E c \in h.completed_boards : ctCompleted' = Some(c)
        /\ ctHandles' = ctHandles \ {h}
    /\ UNCHANGED <<notCt, ctPrev, pc, ctPending, ctOutcome, ctResult>>

\* the for loop over handles is over: back to the loop condition
CT_NextLevel ==
    /\ pc = "ct_merge"
    /\ ctHandles = {}
    /\ pc' = "ct_loop"
    /\ UNCHANGED <<notCt, ctPrev, ctStack, ctCounter, ctPending, ctHandles,
                   ctCompleted, ctOutcome, ctResult>>

\* the frontier is empty: if let Some(completed_board) ... else 0
CT_Return ==
    /\ pc = "ct_loop"
    /\ ctStack = {}
    /\ ctOutcome' = CtFinal(ctCompleted, ctCounter)[1]
    /\ ctResult' = CtFinal(ctCompleted, ctCounter)[2]
    /\ pc' = "gs_start"
    /\ UNCHANGED <<notCt, ctPrev, ctStack, ctCounter, ctPending, ctHandles,
                   ctCompleted>>

----------------------------------------------------------------------------
(* get_single_tiling                                                       *)

Last(s) == s[Len(s)]
Front(s) == SubSeq(s, 1, Len(s) - 1)

\* Faulty variant: the cap is tested with > in place of >=.
GsCapExceeded(completed) == Len(completed) > CompletedCap

\* Faulty variant: the break is taken after every expansion.
GsCapAlways(completed) == TRUE

\* if completed_tilings.len() >= 1000 { break; }
GsCapReached(completed) == Len(completed) >= CompletedCap

\* Faulty variant: the new path keeps only the current board, tvec is not cloned.
GsExtendNoClone(tvec, tp) ==
    <<Last(tvec), mark_tile_at_position(Last(tvec), tp)>>

\* new_tvec = tvec.clone(); new_tvec.push(marked_board)
GsExtend(tvec, tp) == Append(tvec, mark_tile_at_position(Last(tvec), tp))

\* stack.push(vec![tiler.board.clone()]); completed_tilings = Vec::new()
GS_Start ==
    /\ pc = "gs_start"
    /\ gsStack' = <<<<board>>>>
    /\ gsCompleted' = <<>>
    /\ pc' = "gs_loop"
    /\ UNCHANGED <<notGs, gsTvec, gsFitting, gsResult>>

\* while let Some(tvec) = stack.pop() { ... fitting_tiles computed
GS_Pop ==
    /\ pc = "gs_loop"
    /\ gsStack # <<>>
    /\ gsTvec' = Last(gsStack)
    /\ gsStack' = Front(gsStack)
    /\ LET p == get_unmarked_position(Last(Last(gsStack)))
       IN IF p = None
          THEN /\ gsFitting' = <<>>
               /\ pc' = "gs_loop"
          ELSE /\ gsFitting' = FittingTiles(Last(Last(gsStack)), p[1])
               /\ pc' = "gs_place"
    /\ UNCHANGED <<notGs, gsCompleted, gsResult>>

\* one iteration of: for tp in fitting_tiles
GS_Place ==
    /\ pc = "gs_place"
    /\ gsFitting # <<>>
    /\ LET new_tvec == GsExtend(gsTvec, Head(gsFitting))
       IN IF is_all_marked(Last(new_tvec))
          THEN /\ gsCompleted' = Append(gsCompleted, new_tvec)
               /\ gsStack' = gsStack
          ELSE /\ gsStack' = Append(gsStack, new_tvec)
               /\ gsCompleted' = gsCompleted
    /\ gsFitting' = Tail(gsFitting)
    /\ UNCHANGED <<notGs, pc, gsTvec, gsResult>>

\* the for loop is over: the cap is tested
GS_CheckCap ==
    /\ pc = "gs_place"
    /\ gsFitting = <<>>
    /\ pc' = IF GsCapReached(gsCompleted) THEN "gs_end" ELSE "gs_loop"
    /\ UNCHANGED <<notGs, gsVars>>

\* stack.pop() returns None: the while loop is over
GS_Empty ==
    /\ pc = "gs_loop"
    /\ gsStack = <<>>
    /\ pc' = "gs_end"
    /\ UNCHANGED <<notGs, gsVars>>

\* a random solution of those found, or None
GS_Return ==
    /\ pc = "gs_end"
    /\ IF gsCompleted # <<>>
       THEN \E solution_index \in 1..Len(gsCompleted) :
                gsResult' = Some(gsCompleted[solution_index])
       ELSE gsResult' = None
    /\ pc' = "gb_start"
    /\ UNCHANGED <<notGs, gsStack, gsCompleted, gsTvec, gsFitting>>

----------------------------------------------------------------------------
(* BoardGraph and compute_boardgraph                                       *)

\* BoardGraph::new()
BoardGraphNew ==
    [nodes_arena |-> <<>>, nodes_arena_index |-> 0,
     edges |-> EmptyMap, complete_index |-> None]

\* Faulty variant: nodes_arena_index += 1 is forgotten.
add_node_no_incr(g, val) ==
    [g EXCEPT !.nodes_arena = Append(@, val)]

\* BoardGraph::add_node: the graph afterwards (the index returned is the
\* nodes_arena_index before).  Indices count from 0; slot i of the Vec is
\* nodes_arena[i + 1].
add_node(g, val) ==
    [g EXCEPT !.nodes_arena = Append(@, val),
              !.nodes_arena_index = @ + 1]

\* the assertion of BoardGraph::add_edge
add_edge_assert(g, s, t) == s < g.nodes_arena_index /\ t < g.nodes_arena_index

\* Faulty variant: the edge replaces the successors of s instead of joining them.
add_edge_replace(g, s, t) ==
    [g EXCEPT !.edges = [x \in DOMAIN @ \cup {s} |-> IF x = s THEN {t} ELSE @[x]]]

\* Faulty variant: the edge is stored from t to s.
add_edge_reversed(g, s, t) ==
    [g EXCEPT !.edges =
        [x \in DOMAIN @ \cup {t} |->
            IF x = t THEN (IF t \in DOMAIN @ THEN @[t] ELSE {}) \cup {s}
            ELSE @[x]]]

\* BoardGraph::add_edge past its assertion
add_edge(g, s, t) ==
    [g EXCEPT !.edges =
        [x \in DOMAIN @ \cup {s} |->
            IF x = s THEN (IF s \in DOMAIN @ THEN @[s] ELSE {}) \cup {t}
            ELSE @[x]]]

\* Faulty variant: complete successors go to the frontier and the others to
\* the completed boards.
GbClosureSwapped(b) ==
    LET p == get_unmarked_position(b)
        next_board ==
            IF p = None THEN {}
            ELSE {mark_tile_at_position(b, tp) : tp \in Range(FittingTiles(b, p[1]))}
    IN [b |-> b,
        to_stack |-> {k \in next_board : is_all_marked(k)},
        to_hash |-> [k \in next_board |-> <<b>>],
        to_completed |-> {k \in next_board : ~is_all_marked(k)}]

\* The closure of compute_boardgraph run on frontier board b: next_board is
\* keyed by the marked board, so each successor appears once; to_stack and
\* to_completed are only ever extended into HashSets and are kept as sets.
GbClosure(b) ==
    LET p == get_unmarked_position(b)
        next_board ==
            IF p = None THEN {}
            ELSE {mark_tile_at_position(b, tp) : tp \in Range(FittingTiles(b, p[1]))}
    IN [b |-> b,
        to_stack |-> {k \in next_board : ~is_all_marked(k)},
        to_hash |-> [k \in next_board |-> <<b>>],
        to_completed |-> {k \in next_board : is_all_marked(k)}]

\* Faulty variant: every board merged is given a new node.
GbAlwaysNewNode(k, hashmap) == TRUE

\* if !board_graph_hashmap.contains_key(&k)
GbIsNewNode(k, hashmap) == k \notin DOMAIN hashmap

\* The graph and the board index after the node for k is looked up or added.
GbWithNode(g, hashmap, k) ==
    IF GbIsNewNode(k, hashmap)
    THEN <<add_node(g, k),
           [x \in DOMAIN hashmap \cup {k} |->
               IF x = k THEN g.nodes_arena_index ELSE hashmap[x]]>>
    ELSE <<g, hashmap>>

RECURSIVE GbAddEdges(_, _, _, _)
\* for p in &v { board_graph.add_edge(board_graph_hashmap[p], node) }:
\* <<ok, graph>>, ok false when a lookup or the assertion fails.
GbAddEdges(g, hashmap, v, node) ==
    IF v = <<>> THEN <<TRUE, g>>
    ELSE IF Head(v) \notin DOMAIN hashmap THEN <<FALSE, g>>
    ELSE IF ~add_edge_assert(g, hashmap[Head(v)], node) THEN <<FALSE, g>>
    ELSE GbAddEdges(add_edge(g, hashmap[Head(v)], node), hashmap, Tail(v), node)

\* hashm.entry(k).or_insert_with(Vec::new).extend(v)
HashmExtend(m, k, v) ==
    [x \in DOMAIN m \cup {k} |->
        IF x = k THEN (IF k \in DOMAIN m THEN m[k] ELSE <<>>) \o v ELSE m[x]]

\* the starting board is added to the hashmap and the graph
GB_Start ==
    /\ pc = "gb_start"
    /\ hashm' = EmptyMap
    /\ completed_boards' = {}
    /\ board_graph' = add_node(BoardGraphNew, board)
    /\ board_graph_hashmap' = [x \in {board} |-> BoardGraphNew.nodes_arena_index]
    /\ gbStack' = {board}
    /\ pc' = "gb_loop"
    /\ UNCHANGED <<notGb, gbPending, gbHandles, gbToHash, gbOutcome>>

\* while !stack.is_empty() { stack.into_par_iter().map(...) : the fan-out
GB_Begin ==
    /\ pc = "gb_loop"
    /\ gbStack # {}
    /\ gbPending' = gbStack
    /\ gbHandles' = {}
    /\ pc' = "gb_map"
    /\ UNCHANGED <<notGb, gbStack, gbToHash, completed_boards, board_graph,
                   board_graph_hashmap, hashm, gbOutcome>>

\* one closure of the parallel map runs
GB_Expand ==
    /\ pc = "gb_map"
    /\ \E b \in gbPending :
        /\ gbHandles' = gbHandles \cup {GbClosure(b)}
        /\ gbPending' = gbPending \ {b}
    /\ UNCHANGED <<notGb, pc, gbStack, gbToHash, completed_boards, board_graph,
                   board_graph_hashmap, hashm, gbOutcome>>

\* .collect(); stack = HashSet::new()
GB_Collect ==
    /\ pc = "gb_map"
    /\ gbPending = {}
    /\ gbStack' = {}
    /\ pc' = "gb_merge"
    /\ UNCHANGED <<notGb, gbPending, gbHandles, gbToHash, completed_boards,
                   board_graph, board_graph_hashmap, hashm, gbOutcome>>

\* for (to_stack, to_hash, to_completed) in handles { stack.extend(..);
\* completed_boards.extend(..)
GB_TakeHandle ==
    /\ pc = "gb_merge"
    /\ \E h \in gbHandles :
        /\ gbStack' = gbStack \cup h.to_stack
        /\ completed_boards' = completed_boards \cup h.to_completed
        /\ gbToHash' = h.to_hash
        /\ gbHandles' = gbHandles \ {h}
    /\ pc' = "gb_entries"
    /\ UNCHANGED <<notGb, gbPending, board_graph, board_graph_hashmap, hashm,
                   gbOutcome>>

\* one iteration of: for (k, v) in to_hash
GB_MergeEntry ==
    /\ pc = "gb_entries"
    /\ \E k \in DOMAIN gbToHash :
        LET v == gbToHash[k]
            withNode == GbWithNode(board_graph, board_graph_hashmap, k)
            node == withNode[2][k]
            added == GbAddEdges(withNode[1], withNode[2], v, node)
        IN /\ board_graph_hashmap' = withNode[2]
           /\ board_graph' = added[2]
           /\ gbToHash' = [x \in DOMAIN gbToHash \ {k} |-> gbToHash[x]]
           /\ IF added[1]
              THEN /\ hashm' = HashmExtend(hashm, k, v)
                   /\ UNCHANGED <<pc, gbOutcome, gcResult>>
              ELSE /\ gbOutcome' = "panicked"
                   /\ pc' = "done"
                   /\ gcResult' = None
                   /\ UNCHANGED hashm
    /\ UNCHANGED <<inVars, ctVars, gsVars, gbStack, gbPending, gbHandles,
                   completed_boards>>

\* the loop over to_hash is over
GB_HandleDone ==
    /\ pc = "gb_entries"
    /\ DOMAIN gbToHash = {}
    /\ pc' = "gb_merge"
    /\ UNCHANGED <<notGb, gbVars>>

\* the loop over handles is over: back to the loop condition
GB_NextLevel ==
    /\ pc = "gb_merge"
    /\ gbHandles = {}
    /\ pc' = "gb_loop"
    /\ UNCHANGED <<notGb, gbVars>>

\* Faulty variant: the index recorded is one past the node of the board.
GbCompleteIndexNext(hashmap, complete) == Some(hashmap[complete] + 1)

\* Some(board_graph_hashmap[&complete])
GbCompleteIndex(hashmap, complete) == Some(hashmap[complete])

\* for complete in completed_boards { complete_index = Some(hashmap[&complete]) }
GB_Return ==
    /\ pc = "gb_loop"
    /\ gbStack = {}
    /\ IF completed_boards = {}
       THEN /\ gbOutcome' = "returned"
            /\ UNCHANGED board_graph
       ELSE \E complete \in completed_boards :
              IF complete \in DOMAIN board_graph_hashmap
              THEN /\ board_graph' =
                        [board_graph EXCEPT
                            !.complete_index =
                                GbCompleteIndex(board_graph_hashmap, complete)]
                   /\ gbOutcome' = "returned"
              ELSE /\ gbOutcome' = "panicked"
                   /\ UNCHANGED board_graph
    /\ pc' = "gc_run"
    /\ UNCHANGED <<notGb, gbStack, gbPending, gbHandles, gbToHash,
                   completed_boards, board_graph_hashmap, hashm>>

----------------------------------------------------------------------------
(* The graph counter (specification 4.4): the forward pass of 4.2 replayed *)
(* over the stored edges.  Each frontier carries its own counts; what      *)
(* reaches the completion node is accumulated over the frontiers.          *)

Succ(g, n) == IF n \in DOMAIN g.edges THEN g.edges[n] ELSE {}

RECURSIVE SumOver(_, _)
SumOver(f, S) ==
    IF S = {} THEN 0
    ELSE LET x == CHOOSE y \in S : TRUE IN f[x] + SumOver(f, S \ {x})

\* The counts pushed from frontier count map fc to the successors.
GcPush(g, fc) ==
    LET touched == UNION {Succ(g, n) : n \in DOMAIN fc}
    IN [s \in touched |->
           SumOver(fc, {n \in DOMAIN fc : s \in Succ(g, n)})]

RECURSIVE GcLevels(_, _, _, _)
GcLevels(g, fc, total, fuel) ==
    IF DOMAIN fc = {} \/ fuel = 0 THEN total
    ELSE LET nxt == GcPush(g, fc)
             c == g.complete_index
         IN GcLevels(g, nxt,
                     IF c # None /\ c[1] \in DOMAIN nxt THEN total + nxt[c[1]]
                     ELSE total,
                     fuel - 1)

count_from_graph(g) ==
    IF g.complete_index = None THEN 0
    ELSE GcLevels(g, [n \in {0} |-> 1], 0, g.nodes_arena_index)

GC_Run ==
    /\ pc = "gc_run"
    /\ gcResult' = IF gbOutcome = "returned"
                   THEN Some(count_from_graph(board_graph)) ELSE None
    /\ pc' = "done"
    /\ UNCHANGED <<inVars, ctVars, gsVars, gbVars>>

----------------------------------------------------------------------------

\* Tiler::new(tiles, board) for a board of at most n cells, any of them marked
InitWith(n) ==
    /\ \E s \in Shapes(n) : width = s[1] /\ height = s[2]
    /\ board \in SUBSET AllCells
    /\ tiles \in TileCollections
    /\ pc = "ct_start"
    /\ ctStack = {}
    /\ ctCounter = EmptyMap
    /\ ctPending = {}
    /\ ctHandles = {}
    /\ ctCompleted = None
    /\ ctPrev = [stack |-> {}, counter |-> EmptyMap]
    /\ ctOutcome = "running"
    /\ ctResult = 0
    /\ gsStack = <<>>
    /\ gsCompleted = <<>>
    /\ gsTvec = <<>>
    /\ gsFitting = <<>>
    /\ gsResult = None
    /\ gbStack = {}
    /\ gbPending = {}
    /\ gbHandles = {}
    /\ gbToHash = EmptyMap
    /\ completed_boards = {}
    /\ board_graph = BoardGraphNew
    /\ board_graph_hashmap = EmptyMap
    /\ hashm = EmptyMap
    /\ gbOutcome = "running"
    /\ gcResult = None

Next ==
    \/ CT_Start \/ CT_Begin \/ CT_Expand \/ CT_Collect
    \/ CT_Merge \/ CT_NextLevel \/ CT_Return
    \/ GS_Start \/ GS_Pop \/ GS_Place \/ GS_CheckCap \/ GS_Empty \/ GS_Return
    \/ GB_Start \/ GB_Begin \/ GB_Expand \/ GB_Collect \/ GB_TakeHandle
    \/ GB_MergeEntry \/ GB_HandleDone \/ GB_NextLevel \/ GB_Return
    \/ GC_Run

Init == InitWith(MaxCells)

Spec == Init /\ [][Next]_vars

\* Each entry point runs to its end once called: some step is always taken.
LiveInit == InitWith(LiveCells)

FairSpec == LiveInit /\ [][Next]_vars /\ WF_vars(Next)

----------------------------------------------------------------------------
(* What the properties are measured against: tilings and placement paths,  *)
(* defined on the board and the tiles alone.                               *)

\* The boards one placement at the canonical unmarked position leads to.
Successors(b) ==
    LET p == get_unmarked_position(b)
    IN IF p = None THEN {}
       ELSE {mark_tile_at_position(b, r[1]) :
                r \in {tile_fits_at_position(b, tiles[t[1]], p[1], t[2]) :
                          t \in {u \in (DOMAIN tiles) \X (0..MaxCells) :
                                    u[2] <= Len(tiles[u[1]])}} \ {None}}

RECURSIVE ReachFrom(_)
ReachFrom(S) ==
    LET N == S \cup UNION {Successors(b) : b \in S}
    IN IF N = S THEN S ELSE ReachFrom(N)

\* The boards reachable from the initial board by zero or more placements.
Reach == ReachFrom({board})

\* A fully marked board is produced by some placement.
CompletionReachable == \E b \in Reach : AllCells \in Successors(b)

\* The placements (of any tile, by any of its cells) that cover cell c and
\* lie within the set of cells free.
PlacementsOn(free, c) ==
    {tp \in {TileCells(tiles[t[1]], c, t[2]) :
                t \in {u \in (DOMAIN tiles) \X (0..MaxCells) :
                          u[2] <= Len(tiles[u[1]])}} :
        Range(tp) \subseteq free}

RECURSIVE Tilings(_)
RECURSIVE TilingsSum(_, _)
\* The number of sets of pairwise disjoint placements that cover exactly the
\* cells of free: each such set holds one placement on the last cell of free.
Tilings(free) ==
    IF free = {} THEN 1
    ELSE LET c == CHOOSE x \in free : \A d \in free : d = x \/ ScanBefore(d, x)
         IN TilingsSum(free, PlacementsOn(free, c))

TilingsSum(free, P) ==
    IF P = {} THEN 0
    ELSE LET tp == CHOOSE x \in P : TRUE
         IN Tilings(free \ Range(tp)) + TilingsSum(free, P \ {tp})

RECURSIVE PathsToFull(_)
RECURSIVE PathsSum(_, _)
\* The number of sequences of placements, each at the canonical unmarked
\* position of the board before it, that lead from b to the fully marked board.
PathsToFull(b) ==
    IF is_all_marked(b) THEN 1
    ELSE PathsSum(b, FittingTiles(b, get_unmarked_position(b)[1]))

PathsSum(b, fitting) ==
    IF fitting = <<>> THEN 0
    ELSE PathsToFull(mark_tile_at_position(b, Head(fitting)))
            + PathsSum(b, Tail(fitting))

CtFinished == ctOutcome # "running"

\* No two fitting placements of a reachable board cover the same cells.
PlacementsInjective ==
    \A b \in Reach \ {AllCells} :
        LET f == FittingTiles(b, get_unmarked_position(b)[1])
        IN \A i, j \in DOMAIN f : Range(f[i]) = Range(f[j]) => i = j

\* Some tile fits on b at b's canonical unmarked position and marks it into c.
OnePlacement(b, c) == c \in Successors(b)

\* The graph as a relation on boards.
NodeBoards(g) == Range(g.nodes_arena)
EdgeIndexPairs(g) ==
    {e \in (DOMAIN g.edges) \X (0..(g.nodes_arena_index)) : e[2] \in g.edges[e[1]]}
EdgeBoards(g) ==
    {<<g.nodes_arena[e[1] + 1], g.nodes_arena[e[2] + 1]>> : e \in EdgeIndexPairs(g)}

----------------------------------------------------------------------------
(* Properties                                                              *)

\* C1: count_tilings returns the number of complete tilings of the board:
\* the number of sets of non-overlapping placements covering every unmarked
\* cell, whatever the depth a tiling completes at (stated for boards with an
\* unmarked cell; the fully marked board is C3).
C1_CountIsNumberOfTilings ==
    (CtFinished /\ board # AllCells)
        => (ctOutcome = "returned" /\ ctResult = Tilings(AllCells \ board))

\* C2: count_tilings returns what the graph counter computes on the graph
\* compute_boardgraph returns for the same board and tiles (stated for tile
\* collections whose distinct placements mark distinct boards).
C2_CountEqualsGraphCount ==
    (pc = "done" /\ PlacementsInjective)
        => (ctOutcome = "returned" /\ gcResult # None /\ ctResult = gcResult[1])

\* C3: on a board that is fully marked from the start (a board without cells
\* included) count_tilings returns 1.
C3_FullBoardCountsOne ==
    (CtFinished /\ board = AllCells)
        => (ctOutcome = "returned" /\ ctResult = 1)

\* C4: a path returned by get_single_tiling starts at the initial board, ends
\* fully marked, is fully marked nowhere before, and each step marks one
\* placement that fits at the canonical unmarked position of the board before.
C4_ReturnedPathIsATiling ==
    (pc = "gb_start" /\ gsResult # None) =>
        LET path == gsResult[1]
        IN /\ path[1] = board
           /\ is_all_marked(path[Len(path)])
           /\ \A i \in 1..(Len(path) - 1) :
                /\ ~is_all_marked(path[i])
                /\ OnePlacement(path[i], path[i + 1])

C4_Witness ==
    /\ pc = "gb_start"
    /\ gsResult # None
    /\ Len(gsResult[1]) >= 3
    /\ Len(gsCompleted) >= 2

\* C5: at every point of compute_boardgraph, whatever the merge order, no two
\* slots of nodes_arena hold equal boards, and board_graph_hashmap sends each
\* board seen so far to the one slot that holds it.
C5_ArenaHoldsDistinctBoards ==
    /\ \A i, j \in DOMAIN board_graph.nodes_arena :
          board_graph.nodes_arena[i] = board_graph.nodes_arena[j] => i = j
    /\ DOMAIN board_graph_hashmap = NodeBoards(board_graph)
    /\ \A i \in DOMAIN board_graph.nodes_arena :
          board_graph_hashmap[board_graph.nodes_arena[i]] = i - 1

\* a board reached from two predecessors holds one slot with two incoming edges
C5_Witness ==
    /\ pc = "gb_entries"
    /\ \E t \in 0..(board_graph.nodes_arena_index - 1) :
          Cardinality({s \in DOMAIN board_graph.edges :
                          t \in board_graph.edges[s]}) >= 2

\* C6 as stated: the collection never holds more than the cap, and once the
\* cap is reached nothing more is pushed on the stack or collected.
C6_HardCap ==
    /\ [](Len(gsCompleted) <= CompletedCap)
    /\ [][GsCapReached(gsCompleted)
            => (gsStack' = gsStack /\ gsCompleted' = gsCompleted)]_vars

\* C6 amended: the cap is tested once per popped path, after all its fitting
\* placements were processed: a path is popped only while fewer paths than
\* the cap are collected, and fewer paths than the cap were collected before
\* the expansion of the path popped last.
C6_CapTestedPerExpansion ==
    /\ pc = "gs_loop" => Len(gsCompleted) < CompletedCap
    /\ Cardinality({i \in DOMAIN gsCompleted :
                      SubSeq(gsCompleted[i], 1, Len(gsCompleted[i]) - 1) # gsTvec})
          < CompletedCap

\* the cap is reached and the loop is left with work still on the stack
C6_Witness ==
    /\ pc = "gs_end"
    /\ GsCapReached(gsCompleted)
    /\ gsStack # <<>>

\* C7: the graph compute_boardgraph returns is, as a graph on boards, fixed by
\* the board and the tiles, whatever the order of expansion and merging: its
\* nodes are the reachable boards, once each, its edges the single placements
\* between them, once each, and its completion node is set exactly when a
\* placement completes the board, and then holds the fully marked board.
C7_GraphIndependentOfOrder ==
    (pc \in {"gc_run", "done"} /\ gbOutcome = "returned") =>
        LET R == Reach
            E == UNION {{<<b, c>> : c \in Successors(b)} : b \in R}
        IN /\ NodeBoards(board_graph) = R
           /\ board_graph.nodes_arena_index = Cardinality(R)
           /\ EdgeBoards(board_graph) = E
           /\ Cardinality(EdgeIndexPairs(board_graph)) = Cardinality(E)
           /\ (board_graph.complete_index # None) <=> (AllCells \in {e[2] : e \in E})
           /\ board_graph.complete_index # None =>
                 board_graph.nodes_arena[board_graph.complete_index[1] + 1]
                    = AllCells

\* two successors of the initial board merged larger board first
C7_Witness ==
    /\ pc = "done"
    /\ gbOutcome = "returned"
    /\ board_graph.nodes_arena_index >= 4
    /\ board_graph.nodes_arena[2] \in Successors(board)
    /\ board_graph.nodes_arena[3] \in Successors(board)
    /\ Cardinality(board_graph.nodes_arena[2])
          > Cardinality(board_graph.nodes_arena[3])

\* C8: when no placement sequence completes the board, count_tilings returns
\* 0 without aborting, and the closure run on a dead-end board (an unmarked
\* cell, no fitting tile) yields no board and no count.
C8_DeadEndsCountZero ==
    /\ (pc = "gs_start" /\ AllCells \notin Reach)
          => (ctOutcome = "returned" /\ ctResult = 0)
    /\ \A h \in ctHandles :
          (h.b # AllCells /\ Successors(h.b) = {}) =>
              /\ h.next_boards = {}
              /\ h.completed_boards = {}
              /\ DOMAIN h.count_updates = {}

\* placements were made and every branch ended in a dead end
C8_Witness ==
    /\ pc = "gs_start"
    /\ ctOutcome = "returned"
    /\ ctResult = 0
    /\ AllCells \notin Reach
    /\ Cardinality(Reach) >= 3

\* C9: when a complete board was produced, count_tilings returns the number
\* of placement sequences, of any length, from the initial board to the fully
\* marked board.
C9_ResultIsPathCount ==
    (CtFinished /\ ctCompleted # None)
        => (ctOutcome = "returned" /\ ctResult = PathsToFull(board))

\* C10: the three loops end, and every board put into a next frontier or
\* pushed on the stack has strictly more marked cells than the board it was
\* expanded from.
StrictlyMore(b, c) == b \subseteq c /\ b # c

C11_NoneIffNoTiling ==
    pc = "gb_start" =>
        /\ (gsResult = None) <=> (gsCompleted = <<>>)
        /\ (gsResult = None) <=> ~CompletionReachable
        /\ gsResult # None => gsResult[1] \in Range(gsCompleted)

\* placements were tried, every branch ended in a dead end, None is returned
C11_Witness ==
    /\ pc = "gb_start"
    /\ gsResult = None
    /\ board # AllCells
    /\ Cardinality(Reach) >= 3

\* C12: every lookup into the count map of count_tilings hits a key: each
\* frontier board that is read has an entry, and a completed board recorded at
\* any level is still a key of the count map when the loop is left.
C12_CountLookupsHit ==
    /\ ctOutcome # "panicked"
    /\ pc = "ct_map" => \A b \in ctPending : ~CtClosurePanics(b, ctCounter)
    /\ (pc = "ct_loop" /\ ctStack = {} /\ ctCompleted # None)
          => ctCompleted[1] \in DOMAIN ctCounter

\* C13: in one expansion of a board b each distinct successor board is
\* credited count[b] exactly once, also when two placements yield that board.
C13_SuccessorCreditedOnce ==
    pc = "ct_map" =>
        \A h \in ctHandles :
            /\ DOMAIN h.count_updates = Successors(h.b)
            /\ \A s \in DOMAIN h.count_updates :
                  h.count_updates[s] = ctCounter[h.b]

\* C14: when the merge phase of a step is over, the keys of the new count map
\* are the new frontier together with the complete boards of the step, and
\* the count of each key is the sum of the previous counts of the boards of
\* the previous frontier that have it as a successor.
C14_MergedCountsAreSums ==
    (pc = "ct_merge" /\ ctHandles = {}) =>
        LET produced == UNION {Successors(b) : b \in ctPrev.stack}
        IN /\ DOMAIN ctCounter = produced
           /\ ctStack = {s \in produced : ~is_all_marked(s)}
           /\ \A s \in produced :
                 ctCounter[s]
                    = SumOver(ctPrev.counter,
                              {b \in ctPrev.stack : s \in Successors(b)})

\* C15: every stored edge s -> t joins a board to one whose marked cells are
\* a strict superset of its own, so the graph has no self-loop and no cycle
\* (the number of marked cells grows along every edge).
C15_EdgesStrictlyGrow ==
    \A e \in EdgeIndexPairs(board_graph) :
        /\ e[1] # e[2]
        /\ StrictlyMore(board_graph.nodes_arena[e[1] + 1],
                        board_graph.nodes_arena[e[2] + 1])
        /\ Cardinality(board_graph.nodes_arena[e[1] + 1])
              < Cardinality(board_graph.nodes_arena[e[2] + 1])

C15_Witness ==
    /\ pc = "gc_run"
    /\ Cardinality(EdgeIndexPairs(board_graph)) >= 4
    /\ \E e \in EdgeIndexPairs(board_graph) : e[1] # 0

\* C16: when compute_boardgraph returns, complete_index is Some(i) exactly
\* when some expansion produced a fully marked successor (which is exactly
\* when the fully marked board is reachable by one or more placements); then
\* i is a valid arena index, nodes_arena[i] is fully marked and node i has no
\* outgoing edge.
C16_CompleteIndex ==
    (pc = "gc_run" /\ gbOutcome = "returned") =>
        LET ci == board_graph.complete_index
        IN /\ (ci # None) <=> (completed_boards # {})
           /\ (ci # None) <=> CompletionReachable
           /\ ci # None =>
                /\ ci[1] \in 0..(board_graph.nodes_arena_index - 1)
                /\ ci[1] + 1 \in DOMAIN board_graph.nodes_arena
                /\ is_all_marked(board_graph.nodes_arena[ci[1] + 1])
                /\ \/ ci[1] \notin DOMAIN board_graph.edges
                   \/ board_graph.edges[ci[1]] = {}

C16_Witness ==
    /\ pc = "gc_run"
    /\ gbOutcome = "returned"
    /\ board_graph.complete_index # None
    /\ board_graph.complete_index[1] >= 3
    /\ board_graph.complete_index[1] < board_graph.nodes_arena_index - 1

C16_WitnessNone ==
    /\ pc = "gc_run"
    /\ gbOutcome = "returned"
    /\ board_graph.complete_index = None
    /\ board_graph.nodes_arena_index >= 3

\* C17: when compute_boardgraph returns, node 0 is the initial board, the
\* nodes are exactly the boards reachable from it by zero or more placements,
\* and the edges are exactly the pairs (b, s) with s a successor of a
\* reachable board b that is not fully marked; adding an edge already stored
\* leaves the graph as it is.
C17_GraphIsReachableBoards ==
    (pc = "gc_run" /\ gbOutcome = "returned") =>
        LET R == Reach
        IN /\ board_graph.nodes_arena[1] = board
           /\ NodeBoards(board_graph) = R
           /\ EdgeBoards(board_graph)
                 = {e \in R \X R : ~is_all_marked(e[1]) /\ e[2] \in Successors(e[1])}
           /\ \A e \in EdgeIndexPairs(board_graph) :
                 add_edge(board_graph, e[1], e[2]) = board_graph

\* a board was recorded under the same parent twice (the parent was reached
\* at two depths and expanded at both), so the same pair was observed again
C17_Witness ==
    /\ pc = "gc_run"
    /\ gbOutcome = "returned"
    /\ Cardinality(EdgeIndexPairs(board_graph)) >= 4
    /\ \E t \in DOMAIN board_graph.edges : Cardinality(board_graph.edges[t]) >= 2
    /\ \E k \in DOMAIN hashm : Len(hashm[k]) > Cardinality(Range(hashm[k]))

\* C18: count_tilings is level-synchronized. While the closures of a step
\* run, the frontier and the shared count map do not change, and every
\* result was computed from the count map as the step found it; the merge
\* starts only when every board of the frontier has been expanded; the next
\* step starts only when every result has been merged, and expands exactly
\* the merged frontier.
C18_LevelSynchronized ==
    /\ [](pc = "ct_map" =>
            /\ ctPending \subseteq ctStack
            /\ {h.b : h \in ctHandles} = ctStack \ ctPending
            /\ \A h \in ctHandles : h = CtClosure(h.b, ctCounter))
    /\ [](pc = "ct_merge" => ctPending = {})
    /\ [][/\ (pc = "ct_map" /\ pc' = "ct_map")
                => (ctCounter' = ctCounter /\ ctStack' = ctStack)
          /\ (pc = "ct_map" /\ pc' = "ct_merge")
                => (ctPending = {} /\ {h.b : h \in ctHandles'} = ctStack)
          /\ (pc = "ct_merge" /\ pc' = "ct_merge")
                => (ctPending' = {} /\ ctHandles' \subseteq ctHandles)
          /\ (pc # "ct_map" /\ pc' = "ct_map")
                => (/\ pc = "ct_loop"
                    /\ ctHandles = {}
                    /\ ctHandles' = {}
                    /\ ctPending' = ctStack
                    /\ ctStack' = ctStack
                    /\ ctCounter' = ctCounter)
         ]_vars

\* a second level, with one sibling expanded and credited and another not yet
C18_Witness ==
    /\ pc = "ct_map"
    /\ ctPrev.stack # {}
    /\ ctPending # {}
    /\ \E h \in ctHandles : DOMAIN h.count_updates # {}

\* C19: in every state of compute_boardgraph, for every merge order,
\* nodes_arena_index is the length of nodes_arena, every key and every member
\* of every value of edges is an index below nodes_arena_index, the index
\* recorded for a board is the slot holding it, and neither the assertion of
\* add_edge nor a lookup of a board's index has failed.
C19_ArenaIndicesValid ==
    /\ board_graph.nodes_arena_index = Len(board_graph.nodes_arena)
    /\ \A s \in DOMAIN board_graph.edges :
          /\ s \in 0..(board_graph.nodes_arena_index - 1)
          /\ \A t \in board_graph.edges[s] :
                t \in 0..(board_graph.nodes_arena_index - 1)
    /\ \A k \in DOMAIN board_graph_hashmap :
          /\ board_graph_hashmap[k] \in 0..(board_graph.nodes_arena_index - 1)
          /\ board_graph.nodes_arena[board_graph_hashmap[k] + 1] = k
    /\ gbOutcome # "panicked"
    /\ pc = "gb_entries" =>
          \A k \in DOMAIN gbToHash : \A i \in DOMAIN gbToHash[k] :
              gbToHash[k][i] \in DOMAIN board_graph_hashmap

\* in the middle of a merge: entries still to add, edges already stored
C19_Witness ==
    /\ pc = "gb_entries"
    /\ Cardinality(DOMAIN gbToHash) >= 2
    /\ board_graph.nodes_arena_index >= 3
    /\ Cardinality(EdgeIndexPairs(board_graph)) >= 2

====
